---- MODULE Spec2Model ----
(***************************************************************************)
(* The review loop of the Cantonese vocabulary trainer (src/src/App.jsx):  *)
(* the React state of App, the asynchronous calls of fetchVocabCards and   *)
(* updateCardState that are in flight, and the card repository (the Google *)
(* Apps Script web app behind GAS_WEB_APP_URL) they talk to.               *)
(*                                                                         *)
(* Instants are integers (milliseconds, as a JS Date holds them).  An ISO  *)
(* string is modelled as the tuple <<"iso", ms>>; the empty string (an     *)
(* empty NextReviewTime cell) as <<>>.  A Date is a record [valid, ms]:    *)
(* new Date("") is an Invalid Date, whose comparisons are all false.       *)
(***************************************************************************)
EXTENDS Integers, Sequences, FiniteSets

\* ------------------------------------------------------------------ bounds
NumCards == 2
MaxReviews == 2
MaxTicks == 1

\* --------------------------------------------------------------- constants
ReviewIntervalMs == 90 * 60 * 1000
MinProficiency == 1
MaxProficiency == 5
Deltas == {-1, 0, 1}
NoError == "null"
FetchError == "Failed to fetch vocabulary"
UpdateError == "Failed to update card"

CardIds == 1..NumCards
TickSteps == {1, ReviewIntervalMs}

VARIABLES
  repo,              \* the sheet: card id -> [English, ProficiencyLevel,
                     \* NextReviewTime]
  clock,             \* the wall clock, new Date().getTime()
  ticks,             \* how often the clock has advanced
  reviews,           \* how many reviews the user has submitted
  mounted,           \* has the mount effect run
  vocabCards,        \* React state: the due queue
  currentCardIndex,  \* React state: index of the displayed card (0-based)
  loading,           \* React state
  error,             \* React state
  calls,             \* the async calls in flight, each with its locals
  lastFetch,         \* history: outcome of the last completed fetch, and the
                     \* instant `now` of the last one that set vocabCards
  last               \* history: the last step taken, the position in calls of
                     \* the call it resumed, and what that call's promise resolved to

vars == <<repo, clock, ticks, reviews, mounted, vocabCards, currentCardIndex, loading,
          error, calls, lastFetch, last>>

\* ------------------------------------------------------- dates and strings
toISOString(ms) == <<"iso", ms>>

NewDate(s) ==
  IF Len(s) = 2 THEN [valid |-> TRUE, ms |-> s[2]] ELSE [valid |-> FALSE, ms |-> 0]

\* a <= b on Dates: false as soon as one side is NaN
DateLE(a, b) == a.valid /\ b.valid /\ a.ms <= b.ms

\* a - b on Dates, as the sort comparator sees it (a NaN result counts as +0)
DateDiff(a, b) == IF a.valid /\ b.valid THEN a.ms - b.ms ELSE 0

\* ------------------------------------------------------ due-queue selection
IsDueStrictlyBefore(card, now) ==
  LET d == NewDate(card.NextReviewTime)
  IN  d.valid /\ d.ms < now

IsDue(card, now) == DateLE(NewDate(card.NextReviewTime), NewDate(toISOString(now)))

CompareCards(a, b) == DateDiff(NewDate(a.NextReviewTime), NewDate(b.NextReviewTime))

RECURSIVE Filter(_, _)
Filter(data, now) ==
  IF data = <<>> THEN <<>>
  ELSE IF IsDue(Head(data), now)
       THEN <<Head(data)>> \o Filter(Tail(data), now)
       ELSE Filter(Tail(data), now)

RECURSIVE InsertBeforeEqual(_, _)
InsertBeforeEqual(sorted, x) ==
  IF sorted = <<>> THEN <<x>>
  ELSE IF CompareCards(Head(sorted), x) < 0
       THEN <<Head(sorted)>> \o InsertBeforeEqual(Tail(sorted), x)
       ELSE <<x>> \o sorted

\* x goes behind every element that does not compare greater than it
RECURSIVE InsertSorted(_, _)
InsertSorted(sorted, x) ==
  IF sorted = <<>> THEN <<x>>
  ELSE IF CompareCards(Head(sorted), x) <= 0
       THEN <<Head(sorted)>> \o InsertSorted(Tail(sorted), x)
       ELSE <<x>> \o sorted

\* Array.prototype.sort: a stable sort under CompareCards
RECURSIVE Sort(_)
Sort(s) ==
  IF s = <<>> THEN <<>>
  ELSE InsertSorted(Sort(SubSeq(s, 1, Len(s) - 1)), s[Len(s)])

DueCardsUnsorted(data, now) == Filter(data, now)

DueCards(data, now) == Sort(Filter(data, now))

\* ---------------------------------------------------------- review applier
ClampUpperOnly(n) == IF n > MaxProficiency THEN MaxProficiency ELSE n

ClampLowerOnly(n) == IF n < MinProficiency THEN MinProficiency ELSE n

ClampProficiency(n) ==
  LET a == IF n > MaxProficiency THEN MaxProficiency ELSE n
  IN  IF a < MinProficiency THEN MinProficiency ELSE a

NextReviewTimeScaled(now, proficiencyLevel) ==
  now + proficiencyLevel * ReviewIntervalMs

NextReviewTimeNow(now, proficiencyLevel) == now

NextReviewTimeAt(now, proficiencyLevel) == now + ReviewIntervalMs

\* ------------------------------------------------------------------ helpers
RemoveAt(s, i) == SubSeq(s, 1, i - 1) \o SubSeq(s, i + 1, Len(s))

\* the sheet's rows in row order, as getVocabs returns them
Snapshot(r) == [i \in CardIds |-> [ID |-> i,
                                   English |-> r[i].English,
                                   ProficiencyLevel |-> r[i].ProficiencyLevel,
                                   NextReviewTime |-> r[i].NextReviewTime]]

NoCall == [pc |-> "none", id |-> 0, proficiencyLevel |-> 0, nextReviewTime |-> <<>>,
           resp |-> "", data |-> <<>>, shown |-> 0, delta |-> 0, at |-> 0]

ViewIgnoringError ==
  IF loading THEN "Loading"
  ELSE IF Len(vocabCards) = 0 THEN "Empty"
  ELSE "Ready"

View ==
  IF loading THEN "Loading"
  ELSE IF error # NoError THEN "Error"
  ELSE IF Len(vocabCards) = 0 THEN "Empty"
  ELSE "Ready"

\* the rows a sheet may hold at start: due before, at and after the first
\* instant, a row whose NextReviewTime cell is empty, and rows whose
\* ProficiencyLevel cell holds an integer outside 1..5
InitRows == {[ProficiencyLevel |-> 1, NextReviewTime |-> toISOString(0)],
             [ProficiencyLevel |-> 5, NextReviewTime |-> toISOString(1)],
             [ProficiencyLevel |-> 3, NextReviewTime |-> toISOString(2)],
             [ProficiencyLevel |-> 5, NextReviewTime |-> <<>>],
             [ProficiencyLevel |-> 0, NextReviewTime |-> toISOString(0)],
             [ProficiencyLevel |-> 7, NextReviewTime |-> toISOString(1)]}

\* the display text of a row, opaque to the review loop
Text(id) == <<"english", id>>

Init ==
  /\ repo \in {[i \in CardIds |-> [English |-> Text(i),
                                   ProficiencyLevel |-> r[i].ProficiencyLevel,
                                   NextReviewTime |-> r[i].NextReviewTime]] :
                 r \in [CardIds -> InitRows]}
  /\ clock = 1
  /\ ticks = 0
  /\ reviews = 0
  /\ mounted = FALSE
  /\ vocabCards = <<>>
  /\ currentCardIndex = 0
  /\ loading = TRUE
  /\ error = NoError
  /\ calls = <<>>
  /\ lastFetch = [status |-> "none", now |-> 0]
  /\ last = [op |-> "init", i |-> 0, returned |-> <<>>]

\* useEffect(() => { fetchVocabCards(); }): the fetch issued on mount
Mount ==
  /\ ~mounted
  /\ mounted' = TRUE
  /\ loading' = TRUE
  /\ error' = NoError
  /\ calls' = Append(calls, [NoCall EXCEPT !.pc = "fetch_sent"])
  /\ last' = [op |-> "mount", i |-> 0, returned |-> <<>>]
  /\ UNCHANGED <<repo, clock, ticks, reviews, vocabCards, currentCardIndex,
                 lastFetch>>

Tick ==
  /\ ticks < MaxTicks
  /\ \E d \in TickSteps : clock' = clock + d
  /\ ticks' = ticks + 1
  /\ last' = [op |-> "tick", i |-> 0, returned |-> <<>>]
  /\ UNCHANGED <<repo, reviews, mounted, vocabCards, currentCardIndex, loading,
                 error, calls, lastFetch>>

\* updateCardState up to its first await: the request it sends
PersistRequest(cardId, proficiencyLevel, now) ==
  [NoCall EXCEPT !.pc = "persist_sent",
                 !.id = cardId,
                 !.proficiencyLevel = proficiencyLevel,
                 !.nextReviewTime = toISOString(NextReviewTimeAt(now, proficiencyLevel))]

\* the query string of a call's request
RequestParams(c) ==
  IF c.pc \in {"persist_sent", "persist_resp"}
  THEN [action |-> "updateVocab", id |-> c.id,
        proficiencyLevel |-> c.proficiencyLevel,
        nextReviewTime |-> c.nextReviewTime]
  ELSE [action |-> "getVocabs"]

handleNextCardOfLast(proficiencyIncrease) ==
  IF Len(vocabCards) = 0
  THEN UNCHANGED <<calls, last>>
  ELSE LET currentCard == vocabCards[Len(vocabCards)]
           newProficiency ==
             ClampProficiency(currentCard.ProficiencyLevel + proficiencyIncrease)
           req == [PersistRequest(currentCard.ID, newProficiency, clock)
                     EXCEPT !.shown = currentCard.ProficiencyLevel,
                            !.delta = proficiencyIncrease,
                            !.at = clock]
       IN  /\ calls' = Append(calls, req)
           /\ last' = [op |-> "click", i |-> Len(calls) + 1, returned |-> <<>>]

\* handleNextCard(proficiencyIncrease)
handleNextCard(proficiencyIncrease) ==
  IF Len(vocabCards) = 0
  THEN UNCHANGED <<calls, last>>
  ELSE LET currentCard == vocabCards[currentCardIndex + 1]
           newProficiency ==
             ClampProficiency(currentCard.ProficiencyLevel + proficiencyIncrease)
           req == [PersistRequest(currentCard.ID, newProficiency, clock)
                     EXCEPT !.shown = currentCard.ProficiencyLevel,
                            !.delta = proficiencyIncrease,
                            !.at = clock]
       IN  /\ calls' = Append(calls, req)
           /\ last' = [op |-> "click", i |-> Len(calls) + 1, returned |-> <<>>]

\* the three buttons, rendered only in the Ready view
ClickMark ==
  /\ View = "Ready"
  /\ reviews < MaxReviews
  /\ reviews' = reviews + 1
  /\ \E d \in Deltas : handleNextCard(d)
  /\ UNCHANGED <<repo, clock, ticks, mounted, vocabCards, currentCardIndex,
                 loading, error, lastFetch>>

\* the repository handles action=updateVocab and answers: the row is written
\* and success reported, or the request is rejected (an HTTP error or
\* success: false), or the row is written and the answer is lost on the way
ServerUpdateVocab ==
  \E i \in 1..Len(calls) :
    /\ calls[i].pc = "persist_sent"
    /\ \E outcome \in {"ok", "rejected", "reply_lost"} :
         /\ repo' = IF outcome \in {"ok", "reply_lost"}
                    THEN [repo EXCEPT
                            ![RequestParams(calls[i]).id].ProficiencyLevel =
                               RequestParams(calls[i]).proficiencyLevel,
                            ![RequestParams(calls[i]).id].NextReviewTime =
                               RequestParams(calls[i]).nextReviewTime]
                    ELSE repo
         /\ calls' = [calls EXCEPT ![i].pc = "persist_resp",
                                   ![i].resp = IF outcome = "ok" THEN "ok"
                                               ELSE "failed"]
    /\ last' = [op |-> "serverUpdate", i |-> i, returned |-> <<>>]
    /\ UNCHANGED <<clock, ticks, reviews, mounted, vocabCards, currentCardIndex,
                   loading, error, lastFetch>>

\* the repository handles action=getVocabs and answers
ServerGetVocabs ==
  \E i \in 1..Len(calls) :
    /\ calls[i].pc = "fetch_sent"
    /\ \E ok \in BOOLEAN :
         calls' = [calls EXCEPT ![i].pc = "fetch_resp",
                                ![i].resp = IF ok THEN "ok" ELSE "failed",
                                ![i].data = IF ok THEN Snapshot(repo) ELSE <<>>]
    /\ last' = [op |-> "serverGet", i |-> i, returned |-> <<>>]
    /\ UNCHANGED <<repo, clock, ticks, reviews, mounted, vocabCards,
                   currentCardIndex, loading, error, lastFetch>>

PersistSucceededNoRefetch ==
  \E i \in 1..Len(calls) :
    /\ calls[i].pc = "persist_resp"
    /\ calls[i].resp = "ok"
    /\ vocabCards' = Tail(vocabCards)
    /\ calls' = RemoveAt(calls, i)
    /\ last' = [op |-> "persistOk", i |-> i, returned |-> <<>>]
    /\ UNCHANGED <<repo, clock, ticks, reviews, mounted, currentCardIndex,
                   loading, error, lastFetch>>

\* updateCardState resumes on a success answer and calls fetchVocabCards
PersistSucceeded ==
  \E i \in 1..Len(calls) :
    /\ calls[i].pc = "persist_resp"
    /\ calls[i].resp = "ok"
    /\ loading' = TRUE
    /\ error' = NoError
    /\ calls' = [calls EXCEPT ![i] = [NoCall EXCEPT !.pc = "fetch_sent",
                                                    !.id = calls[i].id]]
    /\ last' = [op |-> "persistOk", i |-> i, returned |-> <<>>]
    /\ UNCHANGED <<repo, clock, ticks, reviews, mounted, vocabCards,
                   currentCardIndex, lastFetch>>

\* updateCardState resumes on a failure answer: its catch block
PersistFailed ==
  \E i \in 1..Len(calls) :
    /\ calls[i].pc = "persist_resp"
    /\ calls[i].resp # "ok"
    /\ error' = UpdateError
    /\ calls' = RemoveAt(calls, i)
    /\ last' = [op |-> "persistFail", i |-> i, returned |-> <<>>]
    /\ UNCHANGED <<repo, clock, ticks, reviews, mounted, vocabCards,
                   currentCardIndex, loading, lastFetch>>

FetchSucceededShowsLast ==
  \E i \in 1..Len(calls) :
    /\ calls[i].pc = "fetch_resp"
    /\ calls[i].resp = "ok"
    /\ vocabCards' = DueCards(calls[i].data, clock)
    /\ currentCardIndex' = IF vocabCards' = <<>> THEN 0 ELSE Len(vocabCards') - 1
    /\ loading' = FALSE
    /\ calls' = RemoveAt(calls, i)
    /\ lastFetch' = [status |-> "ok", now |-> clock]
    /\ last' = [op |-> "fetchOk", i |-> i, returned |-> <<>>]
    /\ UNCHANGED <<repo, clock, ticks, reviews, mounted, error>>

\* fetchVocabCards resumes on a snapshot: filter, sort, set state, finally
FetchSucceeded ==
  \E i \in 1..Len(calls) :
    /\ calls[i].pc = "fetch_resp"
    /\ calls[i].resp = "ok"
    /\ vocabCards' = DueCards(calls[i].data, clock)
    /\ currentCardIndex' = 0
    /\ loading' = FALSE
    /\ calls' = RemoveAt(calls, i)
    /\ lastFetch' = [status |-> "ok", now |-> clock]
    /\ last' = [op |-> "fetchOk", i |-> i, returned |-> <<>>]
    /\ UNCHANGED <<repo, clock, ticks, reviews, mounted, error>>

FetchFailedKeepsLoading ==
  \E i \in 1..Len(calls) :
    /\ calls[i].pc = "fetch_resp"
    /\ calls[i].resp # "ok"
    /\ error' = FetchError
    /\ calls' = RemoveAt(calls, i)
    /\ lastFetch' = [lastFetch EXCEPT !.status = "failed"]
    /\ last' = [op |-> "fetchFail", i |-> i, returned |-> <<>>]
    /\ UNCHANGED <<repo, clock, ticks, reviews, mounted, vocabCards,
                   currentCardIndex, loading>>

\* fetchVocabCards resumes on a failure: catch, finally
FetchFailed ==
  \E i \in 1..Len(calls) :
    /\ calls[i].pc = "fetch_resp"
    /\ calls[i].resp # "ok"
    /\ error' = FetchError
    /\ loading' = FALSE
    /\ calls' = RemoveAt(calls, i)
    /\ lastFetch' = [lastFetch EXCEPT !.status = "failed"]
    /\ last' = [op |-> "fetchFail", i |-> i, returned |-> <<>>]
    /\ UNCHANGED <<repo, clock, ticks, reviews, mounted, vocabCards,
                   currentCardIndex>>

\* ---------------------------------------------------------------- claims
InPersist(c) == c.pc \in {"persist_sent", "persist_resp"}
InFetch(c) == c.pc \in {"fetch_sent", "fetch_resp"}
Persists == {i \in 1..Len(calls) : InPersist(calls[i])}
Fetches == {i \in 1..Len(calls) : InFetch(calls[i])}

\* the instant a NextReviewTime string denotes is at or before now
DueAt(card, now) ==
  /\ Len(card.NextReviewTime) = 2
  /\ card.NextReviewTime[2] <= now

Clamp(x, lo, hi) == IF x < lo THEN lo ELSE IF x > hi THEN hi ELSE x

\* C1: when fetchVocabCards processes a snapshot S at instant now, the queue
\* it stores holds only cards of S with NextReviewTime <= now, and every
\* card of S with NextReviewTime <= now exactly once (equality included).
C1_DueSelectionExact ==
  [][last'.op = "fetchOk" =>
       LET S == calls[last'.i].data
           now == clock'
           q == vocabCards'
       IN  /\ \A k \in 1..Len(q) :
                \E j \in 1..Len(S) : S[j] = q[k] /\ DueAt(S[j], now)
           /\ \A j \in 1..Len(S) :
                DueAt(S[j], now) =>
                  Cardinality({k \in 1..Len(q) : q[k] = S[j]}) = 1]_vars

\* a fetch has just stored a queue that holds a card due at exactly now
\* and leaves out a card of the snapshot
C1_Witness ==
  /\ last.op = "fetchOk"
  /\ \E k \in 1..Len(vocabCards) : vocabCards[k].NextReviewTime = <<"iso", clock>>
  /\ Len(vocabCards) < NumCards

\* C2: in every reachable state vocabCards is sorted non-decreasingly by
\* NextReviewTime.
C2_QueueSorted ==
  \A i, j \in 1..Len(vocabCards) :
    i < j =>
      /\ Len(vocabCards[i].NextReviewTime) = 2
      /\ Len(vocabCards[j].NextReviewTime) = 2
      /\ vocabCards[i].NextReviewTime[2] <= vocabCards[j].NextReviewTime[2]

\* the queue holds two cards in the reverse of their row order
C2_Witness ==
  /\ Len(vocabCards) = 2
  /\ vocabCards[1].ID > vocabCards[2].ID
  /\ vocabCards[1].NextReviewTime # vocabCards[2].NextReviewTime

\* C3: a persist request for a displayed card of proficiency p in [1,5] and
\* delta d carries clamp(p + d, 1, 5); 5 and +1 give 5, 1 and -1 give 1.
C3_PersistCarriesClamped ==
  \A i \in Persists :
    calls[i].shown \in 1..5 =>
      /\ calls[i].proficiencyLevel = Clamp(calls[i].shown + calls[i].delta, 1, 5)
      /\ (calls[i].shown = 5 /\ calls[i].delta = 1 => calls[i].proficiencyLevel = 5)
      /\ (calls[i].shown = 1 /\ calls[i].delta = -1 => calls[i].proficiencyLevel = 1)

\* a request that saturated at the upper bound is outstanding
C3_Witness ==
  \E i \in Persists :
    calls[i].shown = 5 /\ calls[i].delta = 1 /\ calls[i].proficiencyLevel = 5

\* C4: every persist request carries nextReviewTime = T + 90 minutes, T the
\* instant of the click, whatever the card's previous NextReviewTime, the
\* delta and the resulting proficiency.
C4_NextReviewIsClickPlus90Min ==
  \A i \in Persists :
    calls[i].nextReviewTime = <<"iso", calls[i].at + 5400000>>

\* two requests of the same instant with different proficiencies
C4_Witness ==
  \E i, j \in Persists :
    /\ calls[i].proficiencyLevel # calls[j].proficiencyLevel
    /\ calls[i].at = calls[j].at
    /\ calls[i].nextReviewTime = calls[j].nextReviewTime

\* C5: at most one review is in flight: at most one call of updateCardState
\* (its persist or its follow-up refetch) is outstanding in any state.
C5_AtMostOneReviewInFlight ==
  Cardinality({i \in 1..Len(calls) : calls[i].id # 0}) <= 1

\* C6: whenever no request is in flight and no error is shown, vocabCards is
\* the due selection, at the instant of the fetch that set it, of what the
\* repository holds.
C6_QueueReflectsRepository ==
  (mounted /\ calls = <<>> /\ error = NoError) =>
    /\ \A k \in 1..Len(vocabCards) :
         /\ DueAt(vocabCards[k], lastFetch.now)
         /\ vocabCards[k] = Snapshot(repo)[vocabCards[k].ID]
    /\ \A id \in CardIds :
         DueAt(Snapshot(repo)[id], lastFetch.now) =>
           \E k \in 1..Len(vocabCards) : vocabCards[k] = Snapshot(repo)[id]
    /\ C2_QueueSorted

\* C7: a persist that succeeds issues exactly one fetch, on its success
\* answer; a persist that fails issues none; a fetch is issued by nothing
\* else but the mount; vocabCards is replaced only by a successful fetch.
C7_ReviewThenRefresh ==
  [][/\ last'.op = "persistOk" =>
          /\ Cardinality(Fetches') = Cardinality(Fetches) + 1
          /\ calls[last'.i].resp = "ok"
          /\ calls'[last'.i].pc = "fetch_sent"
     /\ last'.op = "persistFail" => Cardinality(Fetches') = Cardinality(Fetches)
     /\ Cardinality(Fetches') > Cardinality(Fetches) =>
          last'.op \in {"mount", "persistOk"}
     /\ vocabCards' # vocabCards => last'.op = "fetchOk"]_vars

\* a persist has just succeeded and its refetch is on its way, the reviewed
\* card still in the queue
C7_Witness ==
  /\ last.op = "persistOk"
  /\ calls[last.i].pc = "fetch_sent"
  /\ \E k \in 1..Len(vocabCards) : vocabCards[k].ID = calls[last.i].id

\* C8: whenever the most recently completed fetch failed, error is non-null
\* and the Error view is rendered, never the "No cards due" view.
C8_FailedFetchShowsError ==
  lastFetch.status = "failed" => (error # NoError /\ View = "Error")

\* C9: when a successful fetch yields no due card, error is null and the
\* "nothing due" view is shown.
C9_EmptyQueueIsNotAnError ==
  [][(last'.op = "fetchOk" /\ vocabCards' = <<>>) =>
       (error' = NoError /\ View' = "Empty")]_vars

\* C10: when a persist fails the error "Failed to update card" is shown and
\* the (proficiencyLevel, nextReviewTime) pair of that review is handed back
\* to the caller.
C10_FailedPersistReturnsPair ==
  [][last'.op = "persistFail" =>
       /\ error' = UpdateError
       /\ last'.returned = <<calls[last'.i].proficiencyLevel,
                             calls[last'.i].nextReviewTime>>]_vars

\* C11: every persist request carries a proficiencyLevel in 1..5, also when
\* the displayed card's stored ProficiencyLevel is an integer outside 1..5:
\* that card's click still issues a persist and raises no error.
C11_ProficiencyAlwaysInRange ==
  [][/\ \A i \in Persists' : calls'[i].proficiencyLevel \in 1..5
     /\ (/\ View = "Ready"
         /\ reviews' = reviews + 1) =>
          /\ Len(calls') = Len(calls) + 1
          /\ calls'[Len(calls')].pc = "persist_sent"
          /\ calls'[Len(calls')].shown = vocabCards[currentCardIndex + 1].ProficiencyLevel
          /\ error' = error]_vars

\* a request for a card whose stored level is above 5 is outstanding
C11_Witness ==
  \E i \in Persists :
    /\ calls[i].shown > 5
    /\ calls[i].proficiencyLevel \in 1..5
    /\ error = NoError

\* C12: two cards of a fetched snapshot that are both due and have equal
\* NextReviewTime stand in vocabCards in the order they have in the snapshot.
C12_TieOrderStable ==
  [][last'.op = "fetchOk" =>
       LET S == calls[last'.i].data
           q == vocabCards'
       IN  \A a, b \in 1..Len(S) :
             (/\ a < b
              /\ DueAt(S[a], clock')
              /\ DueAt(S[b], clock')
              /\ S[a].NextReviewTime = S[b].NextReviewTime) =>
               \E k, l \in 1..Len(q) : k < l /\ q[k] = S[a] /\ q[l] = S[b]]_vars

\* a fetch has just stored two cards of equal NextReviewTime
C12_Witness ==
  /\ last.op = "fetchOk"
  /\ Len(vocabCards) >= 2
  /\ vocabCards[1].NextReviewTime = vocabCards[2].NextReviewTime
  /\ vocabCards[1].ID < vocabCards[2].ID

\* C13: every persist request names the ID of the card displayed at the
\* click and carries only a proficiencyLevel and a nextReviewTime; every
\* request is a getVocabs or an updateVocab, and no step creates or deletes
\* a row, changes a row's text or changes another row than the one named.
C13_ReviewTouchesOnlyTheSchedule ==
  [][/\ last'.op = "click" =>
          /\ View = "Ready"
          /\ RequestParams(calls'[last'.i]).id = vocabCards[currentCardIndex + 1].ID
     /\ \A i \in 1..Len(calls') :
          /\ RequestParams(calls'[i]).action \in {"getVocabs", "updateVocab"}
          /\ i \in Persists' =>
               DOMAIN RequestParams(calls'[i]) =
                 {"action", "id", "proficiencyLevel", "nextReviewTime"}
     /\ DOMAIN repo' = DOMAIN repo
     /\ \A id \in DOMAIN repo :
          /\ repo'[id].English = repo[id].English
          /\ repo'[id] # repo[id] =>
               /\ last'.op = "serverUpdate"
               /\ id = calls[last'.i].id]_vars

\* a review of the head of a queue of two cards has reached the repository
C13_Witness ==
  /\ last.op = "serverUpdate"
  /\ Len(vocabCards) = 2
  /\ calls[last.i].id = vocabCards[1].ID
  /\ repo[calls[last.i].id].NextReviewTime = calls[last.i].nextReviewTime

C15_LoadingWhileFetching ==
  Fetches # {} => (loading /\ View = "Loading")

\* C16: the proficiencyLevel of every persist request equals clamp(q + d,
\* 1, 5), q the proficiency the repository holds for the card when the
\* request reaches it and d the delta the user chose.
C16_NoStaleProficiency ==
  [][last'.op = "serverUpdate" =>
       calls[last'.i].proficiencyLevel =
         Clamp(repo[calls[last'.i].id].ProficiencyLevel + calls[last'.i].delta,
               1, 5)]_vars

\* C17: currentCardIndex is 0 in every reachable state, so with a non-empty
\* queue the index is in range, the card shown is the earliest-due card of
\* the queue, and a review is applied to that card.
C17_HeadIsDisplayed ==
  [][/\ currentCardIndex = 0
     /\ currentCardIndex' = 0
     /\ vocabCards' # <<>> =>
          /\ currentCardIndex' + 1 \in 1..Len(vocabCards')
          /\ \A k \in 1..Len(vocabCards') :
               DueAt(vocabCards'[currentCardIndex' + 1],
                     vocabCards'[k].NextReviewTime[2])
     /\ last'.op = "click" =>
          /\ calls'[last'.i].id = vocabCards[1].ID
          /\ calls'[last'.i].shown = vocabCards[1].ProficiencyLevel]_vars

\* a review of the head of a queue of two cards with different due instants
C17_Witness ==
  /\ last.op = "click"
  /\ currentCardIndex = 0
  /\ Len(vocabCards) = 2
  /\ vocabCards[1].NextReviewTime[2] < vocabCards[2].NextReviewTime[2]
  /\ calls[last.i].id = vocabCards[1].ID

\* C18: once error is non-null and no fetch or persist is in flight,
\* loading is false (the Error view is rendered), no click is taken, and
\* loading, error, vocabCards and currentCardIndex never change again and
\* no request is issued; error is cleared by nothing but the start of a
\* fetch.
C18_ErrorIsAbsorbing ==
  [][/\ (error # NoError /\ calls = <<>>) =>
          /\ ~loading
          /\ UNCHANGED <<loading, error, vocabCards, currentCardIndex, calls,
                         repo, reviews>>
     /\ (error # NoError /\ error' = NoError) =>
          /\ last'.op = "persistOk"
          /\ loading'
          /\ Cardinality(Fetches') = Cardinality(Fetches) + 1]_vars

\* the clock advances in the Error view with a non-empty queue behind it
C18_Witness ==
  /\ error # NoError
  /\ calls = <<>>
  /\ Len(vocabCards) > 0
  /\ last.op = "tick"

Next ==
  \/ Mount
  \/ Tick
  \/ ClickMark
  \/ ServerUpdateVocab
  \/ ServerGetVocabs
  \/ PersistSucceeded
  \/ PersistFailed
  \/ FetchSucceeded
  \/ FetchFailed

Spec == Init /\ [][Next]_vars

\* every request is answered and every answer is processed: the mount effect
\* runs, the repository handles each request it receives, and the event loop
\* resumes each call whose answer has arrived
FairSpec ==
  /\ Spec
  /\ WF_vars(Mount)
  /\ WF_vars(ServerGetVocabs)
  /\ WF_vars(ServerUpdateVocab)
  /\ WF_vars(PersistSucceeded)
  /\ WF_vars(PersistFailed)
  /\ WF_vars(FetchSucceeded)
  /\ WF_vars(FetchFailed)

\* C19: if every request is answered, every state with loading = TRUE is
\* followed by a state with loading = FALSE in which exactly one of the
\* Error, Empty and Ready views is rendered.
C19_LoadingTerminates ==
  loading ~>
    (/\ ~loading
     /\ Cardinality({v \in {"Error", "Empty", "Ready"} : v = View}) = 1
     /\ (View = "Error") = (error # NoError)
     /\ (View = "Empty") = (error = NoError /\ vocabCards = <<>>)
     /\ (View = "Ready") = (error = NoError /\ vocabCards # <<>>))

\* the Loading state has ended in the Empty view
C19_Witness ==
  /\ mounted
  /\ ~loading
  /\ last.op = "fetchOk"
  /\ View = "Empty"
====
